---- MODULE Spec2Model ----
(***************************************************************************)
(* A model of vivludo's convolution-based cellular automaton engine        *)
(* (vivludo/automata.py, vivludo/utils.py).                                *)
(*                                                                         *)
(* Arrays are 0-indexed, as in the source: a 1-d array is a function on    *)
(* 0..n-1, a 2-d array a function on 0..h-1 of 1-d arrays.  Array objects  *)
(* live in a heap and are held by reference, so that np.copy (a fresh      *)
(* object) and a plain assignment (an alias) are different things.         *)
(***************************************************************************)
EXTENDS Integers, Sequences, FiniteSets, TLC

VARIABLES
    cls,               \* class of the automaton object ("unbuilt" before __init__)
    args,              \* the arguments the constructor is (was) called with
    update_array,      \* self.update_array
    kernel,            \* self.kernel
    convolve_boundary, \* self.convolve_boundary
    edges,             \* self.edges
    edge_fill,         \* self.edge_fill
    cell_array,        \* self.cell_array: None or a reference into heap
    heap,              \* the live array objects, by reference
    held,              \* references the caller holds (its own arrays, returned copies)
    gens,              \* the generator objects made by n_generations
    ret                \* the last call and its outcome

engine == <<cls, update_array, kernel, convolve_boundary, edges, edge_fill>>
vars == <<cls, args, update_array, kernel, convolve_boundary, edges, edge_fill,
          cell_array, heap, held, gens, ret>>

\* None where a reference is expected (references are 1, 2, ...), and None
\* (or an empty list) where an array value is expected
None == 0
NoArray == << >>

(***************************************************************************)
(* Bounds of the model.                                                    *)
(***************************************************************************)
MaxRow == 3        \* longest row given to an elementary automaton
MaxHeld == 2       \* arrays the caller keeps at a time
MaxN == 2          \* largest finite n given to n_generations
MaxPulls == 4      \* pulls followed on an endless sequence
MaxRuleLen == 5    \* longest rule string given to LifeLike
MaxListLen == 2    \* longest list of a rule given as two lists
MaxCols == 3       \* width of the grids the step is followed on
MaxR == 2          \* largest radius given to LifeLike
MaxBase == 3       \* largest number of states of a 5-cell non-totalistic rule

(***************************************************************************)
(* Arithmetic and array helpers (numpy).                                   *)
(***************************************************************************)
RECURSIVE Pow(_, _)
Pow(b, e) == IF e = 0 THEN 1 ELSE b * Pow(b, e - 1)

RECURSIVE SumFn(_)
SumFn(f) ==
    IF DOMAIN f = {} THEN 0
    ELSE LET x == CHOOSE y \in DOMAIN f : TRUE
         IN  f[x] + SumFn([y \in DOMAIN f \ {x} |-> f[y]])

Len1(a) == Cardinality(DOMAIN a)
NRows(a) == Cardinality(DOMAIN a)
NCols(a) == Cardinality(DOMAIN a[0])
Cells(a) == (0 .. NRows(a) - 1) \X (0 .. NCols(a) - 1)

\* all 1-d arrays of length n, and all h x w arrays, over the values V
Arrays1(n, V) == [0 .. n - 1 -> V]
Arrays2(h, w, V) == [0 .. h - 1 -> [0 .. w - 1 -> V]]

\* np.flip of a 2-d array: both axes reversed
Flip2(a) ==
    [i \in DOMAIN a |-> [j \in DOMAIN a[0] |->
        a[NRows(a) - 1 - i][NCols(a) - 1 - j]]]

\* np.flip of a 1-d array
Flip1(a) == [i \in DOMAIN a |-> a[Len1(a) - 1 - i]]

\* the array written as a list of rows
Array2(rows) ==
    [i \in 0 .. Len(rows) - 1 |-> [j \in 0 .. Len(rows[1]) - 1 |-> rows[i + 1][j + 1]]]

\* the array of the elements of a sequence
Array1(seq) == [i \in 0 .. Len(seq) - 1 |-> seq[i + 1]]

\* a.sum()
ArraySum(a) == SumFn([c \in Cells(a) |-> a[c[1]][c[2]]])

(***************************************************************************)
(* scipy.signal.convolve2d(in, k, boundary, fillvalue, mode="same"), for   *)
(* kernels of odd height and width: the input is extended on every side    *)
(* by the kernel's half-size according to the boundary mode, and each      *)
(* output cell is the sum of the flipped kernel laid over the extended     *)
(* input.                                                                  *)
(***************************************************************************)
PadValue(a, i, j, boundary, fillvalue) ==
    IF i \in 0 .. NRows(a) - 1 /\ j \in 0 .. NCols(a) - 1 THEN a[i][j]
    ELSE IF boundary = "wrap" THEN a[i % NRows(a)][j % NCols(a)]
    ELSE fillvalue

Pad(a, ph, pw, boundary, fillvalue) ==
    [i \in 0 .. NRows(a) + 2 * ph - 1 |->
        [j \in 0 .. NCols(a) + 2 * pw - 1 |->
            PadValue(a, i - ph, j - pw, boundary, fillvalue)]]

convolve2d(a, k, boundary, fillvalue) ==
    LET ph == (NRows(k) - 1) \div 2
        pw == (NCols(k) - 1) \div 2
        p == Pad(a, ph, pw, boundary, fillvalue)
    IN  [i \in DOMAIN a |-> [j \in DOMAIN a[0] |->
            SumFn([c \in Cells(k) |->
                k[c[1]][c[2]] * p[i + 2 * ph - c[1]][j + 2 * pw - c[2]]])]]

\* numpy integer-array indexing t[v]: v in -len..len-1, negative from the end
IndexOk(t, v) == v >= -Len1(t) /\ v < Len1(t)
Index(t, v) == IF v >= 0 THEN t[v] ELSE t[v + Len1(t)]

(***************************************************************************)
(* The heap of array objects.                                              *)
(***************************************************************************)
\* the reference a newly made object gets
NewRef(h) == CHOOSE r \in 1 .. Cardinality(DOMAIN h) + 1 :
                 r \notin DOMAIN h /\ \A q \in 1 .. r - 1 : q \in DOMAIN h

\* h with the object v stored under the reference r
Store(h, r, v) == [q \in DOMAIN h \cup {r} |-> IF q = r THEN v ELSE h[q]]

\* the objects of h something still refers to: the others are reclaimed
Live(h, refs) == [q \in DOMAIN h \cap refs |-> h[q]]

Refs(ca, hd) == hd \cup (IF ca = None THEN {} ELSE {ca})

(***************************************************************************)
(* ConvCA                                                                  *)
(***************************************************************************)
\* variants: every mode convolved as "wrap"; fillvalue left at its default
BoundaryAlwaysWrap(e) == "wrap"

FillValueDefault(fill) == 0

\* ConvCA.__init__, the boundary mode handed to convolve2d
Boundary(e) == IF e = "wrap" THEN "wrap" ELSE "fill"

\* ConvCA.__init__: the fields of the new object, or the error raised
ConvCAInit(ua, k, e, fill) ==
    IF e \notin {"wrap", "fixed"} THEN [err |-> "ValueError"]
    ELSE [err |-> "", update_array |-> ua, kernel |-> k,
          convolve_boundary |-> Boundary(e), edges |-> e, edge_fill |-> fill]

\* the value fillvalue is given in ConvCA.step
FillValue(fill) == fill

\* ConvCA.step, the intermediate array of weighted sums
Sums(a) == convolve2d(a, kernel, convolve_boundary, FillValue(edge_fill))

\* ConvCA.step, the fancy-indexing lookup update_array[sums]
Lookup(ua, s) == [i \in DOMAIN s |-> [j \in DOMAIN s[0] |-> Index(ua, s[i][j])]]

\* every weighted sum is an index numpy accepts
SumsOk(ua, s) == \A c \in Cells(s) : IndexOk(ua, s[c[1]][c[2]])

\* variant: no error for a grid that was never set
StepErrOnSumsOnly(a) ==
    IF a # NoArray /\ ~SumsOk(update_array, Sums(a)) THEN "IndexError" ELSE ""

\* the error step() raises on the grid object a ("" when it succeeds)
StepErr(a) ==
    IF a = NoArray THEN "ValueError"
    ELSE IF ~SumsOk(update_array, Sums(a)) THEN "IndexError"
    ELSE ""

\* the grid step() computes from the grid a
StepValue(a) == Lookup(update_array, Sums(a))

(***************************************************************************)
(* ECA                                                                     *)
(***************************************************************************)
\* format(n, "08b"): the binary digits of n, most significant first, padded
\* with zeros to 8 places
RECURSIVE Bin(_)
Bin(n) == IF n < 2 THEN <<n>> ELSE Append(Bin(n \div 2), n % 2)

Format08b(n) ==
    LET b == Bin(n)
    IN  IF Len(b) >= 8 THEN b ELSE [i \in 1 .. 8 - Len(b) |-> 0] \o b

\* reversed(seq), collected into an array
ReversedArray(s) == [i \in 0 .. Len(s) - 1 |-> s[Len(s) - i]]

\* variant: the digits of format(n, "08b") taken in the order written
ECAUpdateArrayUnreversed(n) == [i \in 0 .. Len(Format08b(n)) - 1 |-> Format08b(n)[i + 1]]

\* ECA.__init__, the update array of rule n
ECAUpdateArray(n) == ReversedArray(Format08b(n))

\* ECA.__init__, the kernel
ECAKernel == [i \in {0} |-> [j \in 0 .. 2 |-> Pow(2, j)]]

\* ECA.__init__(n, edges, edge_fill); n is given with its Python type
ECAInit(n, e, fill) ==
    IF n.ty # "int" THEN [err |-> "TypeError"]
    ELSE IF n.v > 255 \/ n.v < 0 THEN [err |-> "ValueError"]
    ELSE ConvCAInit(ECAUpdateArray(n.v), ECAKernel, e, fill)

(***************************************************************************)
(* LifeLike                                                                *)
(*                                                                         *)
(* A rule is given as a string, [kind |-> "str", chars |-> <<"B", "3",     *)
(* "/", "S", "2", "3">>], or as a list of two lists, [kind |-> "lists",    *)
(* live |-> <<3>>, survive |-> <<2, 3>>].                                  *)
(***************************************************************************)
DigitChars == <<"0", "1", "2", "3", "4", "5", "6", "7", "8", "9">>
IsDigit(c) == \E i \in 1 .. 10 : DigitChars[i] = c

\* int(char) of a digit character
IntOfChar(c) == (CHOOSE i \in 1 .. 10 : DigitChars[i] = c) - 1

\* the position after the longest run of digits of s that starts at i (\d*)
RECURSIVE DigitRun(_, _)
DigitRun(s, i) ==
    IF i <= Len(s) /\ IsDigit(s[i]) THEN DigitRun(s, i + 1) ELSE i

\* re.search("^[bB]?(\d*)/[sS]?(\d*)$", s): no match, or the two groups
RuleMatch(s) ==
    LET b1 == IF Len(s) >= 1 /\ s[1] \in {"b", "B"} THEN 2 ELSE 1
        e1 == DigitRun(s, b1)
        b2 == IF e1 + 1 <= Len(s) /\ s[e1 + 1] \in {"s", "S"} THEN e1 + 2 ELSE e1 + 1
        e2 == DigitRun(s, b2)
    IN  IF e1 <= Len(s) /\ s[e1] = "/" /\ e2 = Len(s) + 1
        THEN [matched |-> TRUE, g1 |-> SubSeq(s, b1, e1 - 1), g2 |-> SubSeq(s, b2, e2 - 1)]
        ELSE [matched |-> FALSE]

\* [int(char) for char in group]
IntsOf(grp) == [i \in 1 .. Len(grp) |-> IntOfChar(grp[i])]

\* i in lst
InList(i, lst) == \E k \in 1 .. Len(lst) : lst[k] = i

\* LifeLike.parse, the kernel before its centre is set: all ones, or the
\* flipped weights (a list of lists, or None)
LifeLikeBaseKernel(r, weights) ==
    IF weights = NoArray
    THEN [i \in 0 .. 2 * r |-> [j \in 0 .. 2 * r |-> 1]]
    ELSE Flip2(weights)

\* LifeLike.parse, the position whose weight is zeroed and then made the
\* self-weight
CentreIndex(r, k) == <<r, r>>

\* k with k[pos] = v
SetAt(k, pos, v) ==
    [i \in DOMAIN k |-> [j \in DOMAIN k[0] |->
        IF <<i, j>> = pos THEN v ELSE k[i][j]]]

\* variant: the survival counts entered as they are, next to the birth counts
LivingUnshifted(live, survive, weight_sum) == live \o survive

\* LifeLike.parse, the list "living" of the table indices that give 1
Living(live, survive, weight_sum) ==
    live \o [k \in 1 .. Len(survive) |-> weight_sum + 1 + survive[k]]

\* variant: a table of the birth counts alone
LifeLikeUpdateArrayBirths(live, survive, weight_sum) ==
    [i \in 0 .. 2 * (weight_sum + 1) - 1 |-> IF InList(i, live) THEN 1 ELSE 0]

\* LifeLike.parse, the update array
LifeLikeUpdateArray(live, survive, weight_sum) ==
    [i \in 0 .. 2 * (weight_sum + 1) - 1 |->
        IF InList(i, Living(live, survive, weight_sum)) THEN 1 ELSE 0]

\* LifeLike.parse(rule_string, r, weights): the update array and the kernel,
\* or the error raised
LifeLikeParse(rule, r, weights) ==
    LET k0 == LifeLikeBaseKernel(r, weights)
        pos == CentreIndex(r, k0)
        m == IF rule.kind = "str" THEN RuleMatch(rule.chars) ELSE [matched |-> TRUE]
    IN  IF ~(pos[1] \in DOMAIN k0 /\ pos[2] \in DOMAIN k0[0])
        THEN [err |-> "IndexError"]
        ELSE IF ~m.matched THEN [err |-> "ValueError"]
        ELSE LET k1 == SetAt(k0, pos, 0)
                 weight_sum == ArraySum(k1)
                 live == IF rule.kind = "lists" THEN rule.live ELSE IntsOf(m.g1)
                 survive == IF rule.kind = "lists" THEN rule.survive ELSE IntsOf(m.g2)
             IN  [err |-> "",
                  update_array |-> LifeLikeUpdateArray(live, survive, weight_sum),
                  kernel |-> SetAt(k1, pos, weight_sum + 1),
                  weight_sum |-> weight_sum]

\* LifeLike.__init__(rule_string, edges, edge_fill, r, weights)
LifeLikeInit(rule, e, fill, r, weights) ==
    LET p == LifeLikeParse(rule, r, weights)
    IN  IF p.err # "" THEN [err |-> p.err]
        ELSE ConvCAInit(p.update_array, p.kernel, e, fill)

(***************************************************************************)
(* utils: the neighbourhoods and func_to_update_array                      *)
(***************************************************************************)
NbNames == {"moore", "von neumann", "extended"}

nb_sizes(nb) == IF nb = "von neumann" THEN 5 ELSE 9

nb_patterns(nb) ==
    IF nb = "moore" THEN Array2(<<<<1, 1, 1>>,
                                  <<1, 1, 1>>,
                                  <<1, 1, 1>>>>)
    ELSE IF nb = "von neumann" THEN Array2(<<<<0, 1, 0>>,
                                             <<1, 1, 1>>,
                                             <<0, 1, 0>>>>)
    ELSE Array2(<<<<0, 0, 1, 0, 0>>,
                  <<0, 0, 1, 0, 0>>,
                  <<1, 1, 1, 1, 1>>,
                  <<0, 0, 1, 0, 0>>,
                  <<0, 0, 1, 0, 0>>>>)

\* the exponents as written in the source, before np.flip
ExponentsWritten(nb) ==
    IF nb = "moore" THEN Array2(<<<<0, 1, 2>>,
                                  <<3, 4, 5>>,
                                  <<6, 7, 8>>>>)
    ELSE IF nb = "von neumann" THEN Array2(<<<<0, 0, 0>>,
                                             <<1, 2, 3>>,
                                             <<0, 4, 0>>>>)
    ELSE Array2(<<<<0, 0, 0, 0, 0>>,
                  <<0, 0, 1, 0, 0>>,
                  <<2, 3, 4, 5, 6>>,
                  <<0, 0, 7, 0, 0>>,
                  <<0, 0, 8, 0, 0>>>>)

nb_exponents(nb) == Flip2(ExponentsWritten(nb))

\* nb.lower(), on the names used here
Lower(nb) ==
    IF nb = "Moore" THEN "moore"
    ELSE IF nb = "Von Neumann" THEN "von neumann"
    ELSE nb

\* element number i (from 0) of itertools.product(range(b), repeat=k), as a
\* sequence: the first component varies slowest
RECURSIVE ProductAt(_, _, _)
ProductAt(b, k, i) ==
    IF k = 0 THEN << >>
    ELSE <<i \div Pow(b, k - 1)>> \o ProductAt(b, k - 1, i % Pow(b, k - 1))

\* variant: the tuple used as it comes
PossUnflipped(t) == t

\* poss = np.flip(poss)
PossFlipped(t) == Flip1(t)

\* poss.reshape(3, 3)
Reshape33(t) == [i \in 0 .. 2 |-> [j \in 0 .. 2 |-> t[3 * i + j]]]

\* A rule function.  [name |-> "cell", k |-> k] returns the k-th cell of the
\* array it is given (counted along the rows for a 3x3 array);
\* [name |-> "mix"] returns the parity of the sum of (k+1) times the k-th
\* cell.
Call(f, poss, nb) ==
    LET flat == IF nb = "moore" THEN [k \in 0 .. 8 |-> poss[k \div 3][k % 3]] ELSE poss
    IN  IF f.name = "cell" THEN flat[f.k]
        ELSE SumFn([k \in DOMAIN flat |-> (k + 1) * flat[k]]) % 2

\* func_to_update_array(func, base, nb)
func_to_update_array(func, base, nb0) ==
    LET nb == Lower(nb0)
        size == nb_sizes(nb)
    IN  [i \in 0 .. Pow(base, size) - 1 |->
            LET poss == PossFlipped(Array1(ProductAt(base, size, i)))
            IN  Call(func, IF nb = "moore" THEN Reshape33(poss) ELSE poss, nb)]

(***************************************************************************)
(* NonTotalistic                                                           *)
(*                                                                         *)
(* A rule is a function, [kind |-> "func", name |-> ...], or anything      *)
(* else, [kind |-> "array", table |-> ...], which is taken for an update   *)
(* array.                                                                  *)
(***************************************************************************)
\* NonTotalistic.parse_kernel(base, nb)
parse_kernel(base, nb0) ==
    LET nb == Lower(nb0)
    IN  IF nb \notin NbNames THEN [err |-> "ValueError"]
        ELSE [err |-> "",
              kernel |-> [i \in DOMAIN nb_patterns(nb) |->
                             [j \in DOMAIN nb_patterns(nb)[0] |->
                                 nb_patterns(nb)[i][j]
                                   * Pow(base * nb_patterns(nb)[i][j],
                                         nb_exponents(nb)[i][j])]]]

\* NonTotalistic.parse_rule(rule, base, nb)
parse_rule(rule, base, nb) ==
    IF rule.kind = "func" THEN func_to_update_array(rule, base, nb)
    ELSE rule.table

\* NonTotalistic.__init__(rule, base, nb, edges, edge_fill)
NonTotalisticInit(rule, base, nb, e, fill) ==
    LET k == parse_kernel(base, nb)
    IN  IF k.err # "" THEN [err |-> k.err]
        ELSE ConvCAInit(parse_rule(rule, base, nb), k.kernel, e, fill)

(***************************************************************************)
(* Construction.                                                           *)
(***************************************************************************)
\* the constructor of a.cls applied to the arguments a
Build(a) ==
    IF a.cls = "ECA" THEN ECAInit(a.n, a.edges, a.edge_fill)
    ELSE IF a.cls = "LifeLike"
    THEN LifeLikeInit(a.rule, a.edges, a.edge_fill, a.r, a.weights)
    ELSE NonTotalisticInit(a.rule, a.base, a.nb, a.edges, a.edge_fill)

\* the engine's fields are those of the built object b of class c
Built(c, b) ==
    /\ cls = c
    /\ update_array = b.update_array
    /\ kernel = b.kernel
    /\ convolve_boundary = b.convolve_boundary
    /\ edges = b.edges
    /\ edge_fill = b.edge_fill

NoGen == [st |-> "none", n |-> 0, count |-> 0, pulls |-> 0, steps |-> 0,
          start |-> NoArray, last |-> NoArray, clean |-> TRUE, died |-> FALSE]
GenIds == {"a", "b"}

Conway == [kind |-> "str", chars |-> <<"B", "3", "/", "S", "2", "3">>]

\* the automata of the engine specification
SpecEngines ==
    {[cls |-> "ECA", n |-> [ty |-> "int", v |-> 110], edges |-> e, edge_fill |-> 0]
        : e \in {"wrap", "fixed"}}
    \cup {[cls |-> "LifeLike", rule |-> Conway, edges |-> "wrap", edge_fill |-> 0,
           r |-> 1, weights |-> NoArray]}

\* the arrays a caller gives to set_state: rows for an ECA, grids otherwise
InputArrays(c) ==
    IF c = "ECA" THEN Arrays1(MaxRow, 0 .. 1)
    ELSE Arrays2(2, 2, 0 .. 1)

\* the arrays a caller makes to keep and write into
OwnArrays(c) ==
    IF c = "ECA" THEN Arrays1(2, 0 .. 1)
    ELSE Arrays2(1, 1, 0 .. 1)

\* the fields of an object whose __init__ has not run (or has raised)
Unbuilt ==
    /\ cls = "unbuilt"
    /\ update_array = NoArray
    /\ kernel = NoArray
    /\ convolve_boundary = ""
    /\ edges = ""
    /\ edge_fill = 0

\* the state before the constructor is called with one of the arguments A
Start(A) ==
    /\ args \in A
    /\ Unbuilt
    /\ cell_array = None
    /\ heap = << >>
    /\ held = {}
    /\ gens = [g \in GenIds |-> NoGen]
    /\ ret = [gen |-> "", op |-> "", err |-> "", val |-> None]

\* the constructor call: the object is built, or the error is raised and
\* there is no object
New ==
    /\ cls = "unbuilt"
    /\ ret.op = ""
    /\ LET b == Build(args)
       IN  IF b.err = ""
           THEN /\ cls' = args.cls
                /\ update_array' = b.update_array
                /\ kernel' = b.kernel
                /\ convolve_boundary' = b.convolve_boundary
                /\ edges' = b.edges
                /\ edge_fill' = b.edge_fill
                /\ ret' = [gen |-> "", op |-> "__init__", err |-> "", val |-> None]
           ELSE /\ ret' = [gen |-> "", op |-> "__init__", err |-> b.err, val |-> None]
                /\ UNCHANGED engine
    /\ UNCHANGED <<args, cell_array, heap, held, gens>>

Init ==
    /\ args \in SpecEngines
    /\ Built(args.cls, Build(args))
    /\ cell_array = None
    /\ heap = << >>
    /\ held = {}
    /\ gens = [g \in GenIds |-> NoGen]
    /\ ret = [gen |-> "", op |-> "__init__", err |-> "", val |-> None]

(***************************************************************************)
(* The caller's own arrays.                                                *)
(***************************************************************************)
\* every generator but g has seen something else happen since it was made:
\* its history is no longer that of a sequence consumed undisturbed, and is
\* not kept
Touch(g) ==
    [h \in GenIds |->
        IF h = g \/ gens[h].st = "none" THEN gens[h]
        ELSE [gens[h] EXCEPT !.clean = FALSE, !.start = NoArray, !.last = NoArray]]

\* the caller makes an array of its own
NewArray(v) ==
    /\ cls # "unbuilt"
    /\ Cardinality(held) < MaxHeld
    /\ LET r == NewRef(heap)
       IN  /\ heap' = Store(heap, r, v)
           /\ held' = held \cup {r}
           /\ ret' = [gen |-> "", op |-> "new", err |-> "", val |-> None]
    /\ gens' = Touch("")
    /\ UNCHANGED <<engine, args, cell_array>>

\* a with the cell at pos set to x (the caller's arrays are rows for an ECA,
\* grids otherwise)
Written(a, pos, x) ==
    IF cls = "ECA" THEN [j \in DOMAIN a |-> IF j = pos[2] THEN x ELSE a[j]]
    ELSE SetAt(a, pos, x)

Positions(a) ==
    IF cls = "ECA" THEN {0} \X (DOMAIN a) ELSE (DOMAIN a) \X (DOMAIN a[0])

\* the caller writes into an array it holds
Mutate(r, pos, x) ==
    /\ r \in held
    /\ pos \in Positions(heap[r])
    /\ Written(heap[r], pos, x) # heap[r]
    /\ heap' = [heap EXCEPT ![r] = Written(heap[r], pos, x)]
    /\ ret' = [gen |-> "", op |-> "mutate", err |-> "", val |-> None]
    /\ gens' = Touch("")
    /\ UNCHANGED <<engine, args, cell_array, held>>

\* the caller lets go of an array
Drop(r) ==
    /\ r \in held
    /\ held' = held \ {r}
    /\ heap' = Live(heap, Refs(cell_array, held'))
    /\ ret' = [gen |-> "", op |-> "drop", err |-> "", val |-> None]
    /\ gens' = Touch("")
    /\ UNCHANGED <<engine, args, cell_array>>

(***************************************************************************)
(* set_state, copy_state, step                                             *)
(***************************************************************************)
\* variants: the array itself in place of a copy of it
np_alias(h, r) == r

copy_alias(h, ca) == ca

\* np.copy(x): the reference of the copy in the heap h
np_copy(h, r) == NewRef(h)

\* variant: the argument stored as it is given
SetStateValueAsGiven(c, v) == v

\* the object set_state stores for the argument object v
SetStateValue(c, v) == IF c = "ECA" THEN [i \in {0} |-> v] ELSE v

\* the object copy_state returns for the grid object v
CopyStateValue(c, v) == IF c = "ECA" THEN v[0] ELSE v

\* set_state(x), x the object at reference r of the heap h: the engine's
\* new grid reference and the heap
set_state(h, r) ==
    LET q == np_copy(h, r)
    IN  [cell_array |-> q, heap |-> Store(h, q, SetStateValue(cls, h[r]))]

\* set_state(x), x an array the caller holds
SetState(r) ==
    /\ cls # "unbuilt"
    /\ r \in held
    /\ LET s == set_state(heap, r)
       IN  /\ cell_array' = s.cell_array
           /\ heap' = Live(s.heap, Refs(s.cell_array, held))
    /\ ret' = [gen |-> "", op |-> "set_state", err |-> "", val |-> r]
    /\ gens' = Touch("")
    /\ UNCHANGED <<engine, args, held>>

\* set_state(x), x a list the caller writes in the call and does not keep
SetStateList(v) ==
    /\ cls # "unbuilt"
    /\ LET t == NewRef(heap)
           s == set_state(Store(heap, t, v), t)
       IN  /\ cell_array' = s.cell_array
           /\ heap' = Live(s.heap, Refs(s.cell_array, held))
    /\ ret' = [gen |-> "", op |-> "set_state", err |-> "", val |-> None]
    /\ gens' = Touch("")
    /\ UNCHANGED <<engine, args, held>>

\* the reference returned for a copy of the grid
copy_ref(h, ca) == NewRef(h)

\* the error copy_state raises ("" when it returns)
CopyErr == IF cls = "ECA" /\ cell_array = None THEN "TypeError" ELSE ""

\* what copy_state returns, as a value: np.copy(None) is an array holding None
CopyValue == IF cell_array = None THEN NoArray ELSE CopyStateValue(cls, heap[cell_array])

\* the heap and the caller's references after copy_state returned to the
\* caller, who keeps the copy (if it has room for it) or lets it go
Returned(h, ca, hd, keep) ==
    IF ca = None \/ ~keep \/ Cardinality(hd) >= MaxHeld
    THEN [heap |-> h, held |-> hd, val |-> None]
    ELSE LET q == copy_ref(h, ca)
         IN  [heap |-> Store(h, q, CopyStateValue(cls, h[ca])),
              held |-> hd \cup {q}, val |-> q]

CopyState(keep) ==
    /\ cls # "unbuilt"
    /\ IF CopyErr # ""
       THEN /\ ret' = [gen |-> "", op |-> "copy_state", err |-> CopyErr, val |-> None]
            /\ UNCHANGED <<heap, held>>
       ELSE LET c == Returned(heap, cell_array, held, keep)
            IN  /\ heap' = c.heap
                /\ held' = c.held
                /\ ret' = [gen |-> "", op |-> "copy_state", err |-> "", val |-> c.val]
    /\ gens' = Touch("")
    /\ UNCHANGED <<engine, args, cell_array>>

\* the grid object at reference ca (None when there is none)
GridAt(h, ca) == IF ca = None THEN NoArray ELSE h[ca]

\* variant: the grid is let go before the new one is computed
SteppedLosing(h, ca, hd) ==
    IF StepErr(GridAt(h, ca)) # "" THEN [heap |-> Live(h, hd), cell_array |-> None]
    ELSE LET q == NewRef(h)
         IN  [heap |-> Live(Store(h, q, StepValue(GridAt(h, ca))), hd \cup {q}),
              cell_array |-> q]

\* step(): the engine's grid reference and the heap after it
Stepped(h, ca, hd) ==
    IF StepErr(GridAt(h, ca)) # "" THEN [heap |-> h, cell_array |-> ca]
    ELSE LET q == NewRef(h)
         IN  [heap |-> Live(Store(h, q, StepValue(GridAt(h, ca))), hd \cup {q}),
              cell_array |-> q]

Step ==
    /\ cls # "unbuilt"
    /\ LET s == Stepped(heap, cell_array, held)
       IN  /\ heap' = s.heap
           /\ cell_array' = s.cell_array
    /\ ret' = [gen |-> "", op |-> "step", err |-> StepErr(GridAt(heap, cell_array)), val |-> None]
    /\ gens' = Touch("")
    /\ UNCHANGED <<engine, args, held>>

(***************************************************************************)
(* n_generations                                                           *)
(***************************************************************************)
\* variants of the loop: "count <= n" for its bound; no "or n < 0"; a step
\* in the first iteration too
LoopTestInclusive(n, count) == count <= n \/ n < 0

LoopTestFinite(n, count) == count < n

ShouldStepAlways(n, count) == count >= 0

\* the while condition
LoopTest(n, count) == count < n \/ n < 0

\* "if count > 0": whether this iteration steps
ShouldStep(n, count) == count > 0

\* "if n >= 0: count += 1"
NextCount(n, count) == IF n >= 0 THEN count + 1 ELSE count

\* the values of n a caller passes
GenArgs == -2 .. MaxN

\* n_generations(n): makes the generator object g; none of its body runs yet.
\* start, pulls, steps, last, clean and died record its history.
NGenerations(g, n) ==
    /\ cls # "unbuilt"
    /\ gens[g].st \in {"none", "done"}
    /\ gens' = [gens EXCEPT ![g] =
                   [st |-> "created", n |-> n, count |-> 0, pulls |-> 0, steps |-> 0,
                    start |-> CopyValue, last |-> NoArray, clean |-> TRUE, died |-> FALSE]]
    /\ ret' = [gen |-> g, op |-> "n_generations", err |-> "", val |-> None]
    /\ UNCHANGED <<engine, args, cell_array, heap, held>>

\* next(g): the body runs from where it stands to its next yield, to its end
\* (StopIteration) or to an exception, which ends the generator
Pull(g, keep) ==
    LET gen == gens[g]
        stepping == ShouldStep(gen.n, gen.count)
        serr == IF stepping THEN StepErr(GridAt(heap, cell_array)) ELSE ""
        s == IF stepping THEN Stepped(heap, cell_array, held)
             ELSE [heap |-> heap, cell_array |-> cell_array]
        c == Returned(s.heap, s.cell_array, held, keep)
        others == Touch(g)
    IN  /\ gen.st # "none"
        /\ gen.n < 0 => gen.pulls < MaxPulls
        /\ IF gen.st = "done" \/ ~LoopTest(gen.n, gen.count)
           THEN /\ gens' = [others EXCEPT ![g].st = "done"]
                /\ ret' = [gen |-> g, op |-> "next", err |-> "StopIteration", val |-> None]
                /\ UNCHANGED <<cell_array, heap, held>>
           ELSE IF serr # ""
           THEN /\ gens' = [others EXCEPT ![g].st = "done", ![g].died = TRUE]
                /\ ret' = [gen |-> g, op |-> "next", err |-> serr, val |-> None]
                /\ UNCHANGED <<cell_array, heap, held>>
           ELSE IF CopyErr # ""
           THEN /\ gens' = [others EXCEPT ![g].st = "done", ![g].died = TRUE,
                                          ![g].count = NextCount(gen.n, gen.count)]
                /\ ret' = [gen |-> g, op |-> "next", err |-> CopyErr, val |-> None]
                /\ UNCHANGED <<cell_array, heap, held>>
           ELSE /\ gens' = [others EXCEPT
                       ![g].st = "suspended",
                       ![g].count = NextCount(gen.n, gen.count),
                       ![g].pulls = gen.pulls + 1,
                       ![g].steps = gen.steps + (IF stepping THEN 1 ELSE 0),
                       ![g].last = IF s.cell_array = None THEN NoArray
                                   ELSE CopyStateValue(cls, s.heap[s.cell_array])]
                /\ cell_array' = s.cell_array
                /\ heap' = c.heap
                /\ held' = c.held
                /\ ret' = [gen |-> g, op |-> "next", err |-> "", val |-> c.val]
        /\ UNCHANGED <<engine, args>>

\* The engine and its sequences: the caller gives lists to set_state and
\* looks at the snapshots without keeping them.
Next ==
    \/ \E v \in InputArrays(cls) : SetStateList(v)
    \/ CopyState(FALSE)
    \/ Step
    \/ \E n \in GenArgs : NGenerations("a", n)
    \/ Pull("a", FALSE)

Spec == Init /\ [][Next]_vars

(***************************************************************************)
(* The sequence of snapshots.                                              *)
(***************************************************************************)
\* one step() applied to a grid as copy_state returns it
Advance(v) == CopyStateValue(cls, StepValue(SetStateValue(cls, v)))

\* the grid v after k steps
RECURSIVE After(_, _)
After(v, k) == IF k = 0 THEN v ELSE After(Advance(v), k - 1)

\* C1 as stated: a sequence made with n >= 0 on an engine that has a grid,
\* and consumed to its end, has yielded exactly n+1 snapshots.
C1_YieldsNPlusOne ==
    \A g \in GenIds :
        (gens[g].st = "done" /\ ~gens[g].died /\ gens[g].n >= 0
         /\ gens[g].clean /\ gens[g].start # NoArray)
            => gens[g].pulls = gens[g].n + 1

\* C1, amended: a sequence made with n >= 0 never yields more than n
\* snapshots, and consumed to its end it has yielded exactly n (none for
\* n = 0).
C1_YieldsN ==
    \A g \in GenIds :
        gens[g].n >= 0 =>
            /\ gens[g].pulls <= gens[g].n
            /\ (gens[g].st = "done" /\ ~gens[g].died) => gens[g].pulls = gens[g].n

C1_Witness ==
    /\ gens["a"].st = "done" /\ ~gens["a"].died
    /\ gens["a"].n = MaxN /\ gens["a"].pulls = MaxN
    /\ cell_array # None

\* C2: for n >= 1 and a sequence nothing else disturbs, the (k+1)-th snapshot
\* yielded is the grid of the call after exactly k steps (the first is the
\* grid itself), and the sequence has stepped the engine exactly k times.
C2_SnapshotsAreSuccessiveSteps ==
    \A g \in GenIds :
        (gens[g].n >= 1 /\ gens[g].clean /\ gens[g].pulls >= 1)
            => /\ gens[g].last = After(gens[g].start, gens[g].pulls - 1)
               /\ gens[g].steps = gens[g].pulls - 1

C2_Witness ==
    /\ gens["a"].n = 2 /\ gens["a"].clean /\ gens["a"].pulls = 2
    /\ gens["a"].last # gens["a"].start
    /\ gens["a"].last = Advance(gens["a"].start)

\* C3: for n < 0 and a sequence nothing else disturbs, the (k+1)-th snapshot
\* pulled is the grid of the call after exactly k steps.
C3_EndlessSnapshotsAreSuccessiveSteps ==
    \A g \in GenIds :
        (gens[g].n < 0 /\ gens[g].clean /\ gens[g].pulls >= 1)
            => gens[g].last = After(gens[g].start, gens[g].pulls - 1)

\* C4: a pull from a sequence made with n < 0, on an engine that has a grid,
\* yields a snapshot and leaves the sequence open, however many snapshots
\* were pulled before.
C4_EndlessNeverEnds ==
    \A g \in GenIds :
        (ret.op = "next" /\ ret.gen = g /\ gens[g].n < 0 /\ ~gens[g].died
         /\ cell_array # None)
            => ret.err = "" /\ gens[g].st = "suspended"

C4_Witness ==
    /\ ret.op = "next" /\ ret.gen = "a" /\ ret.err = ""
    /\ gens["a"].n < 0 /\ gens["a"].pulls = MaxPulls /\ gens["a"].st = "suspended"
    /\ cell_array # None

(***************************************************************************)
(* LifeLike.parse on rule strings and lists.                               *)
(***************************************************************************)
RuleAlphabet == {"B", "S", "/", "2", "3", "9"}
RuleStrings == UNION {[1 .. n -> RuleAlphabet] : n \in 0 .. MaxRuleLen}
ListValues == {2, 9, 12}
RuleLists == UNION {[1 .. n -> ListValues] : n \in 0 .. MaxListLen}

\* LifeLike(rule) with the default radius and no weights
RuleArgs ==
    {[cls |-> "LifeLike", rule |-> [kind |-> "str", chars |-> c],
      edges |-> "wrap", edge_fill |-> 0, r |-> 1, weights |-> NoArray]
        : c \in RuleStrings}
    \cup {[cls |-> "LifeLike", rule |-> [kind |-> "lists", live |-> l, survive |-> v],
           edges |-> "wrap", edge_fill |-> 0, r |-> 1, weights |-> NoArray]
        : l \in RuleLists, v \in RuleLists}

InitParse == Start(RuleArgs)

SpecParse == InitParse /\ [][New]_vars

\* the birth and survival counts a rule names
SlashAt(c) == CHOOSE i \in 1 .. Len(c) : c[i] = "/"
BirthSet(rule) ==
    IF rule.kind = "lists" THEN {rule.live[i] : i \in 1 .. Len(rule.live)}
    ELSE {IntOfChar(rule.chars[i]) :
            i \in {k \in 1 .. SlashAt(rule.chars) - 1 : IsDigit(rule.chars[k])}}
SurviveSet(rule) ==
    IF rule.kind = "lists" THEN {rule.survive[i] : i \in 1 .. Len(rule.survive)}
    ELSE {IntOfChar(rule.chars[i]) :
            i \in {k \in SlashAt(rule.chars) + 1 .. Len(rule.chars) : IsDigit(rule.chars[k])}}

\* the centre of a kernel or weight matrix, its entry, and the sum of the others
Centre(k) == (NRows(k) - 1) \div 2
SelfWeight(k) == k[Centre(k)][Centre(k)]
OtherWeights(k) == ArraySum(k) - SelfWeight(k)

\* C5: the update table of an accepted rule has 2*(weight_sum+1) entries, and
\* entry v is 1 exactly when v is below the self-weight and a birth count, or
\* v is at least the self-weight and v minus the self-weight is a survival
\* count.
C5_TableMatchesRule ==
    cls = "LifeLike" =>
        /\ Len1(update_array) = 2 * (OtherWeights(kernel) + 1)
        /\ \A v \in DOMAIN update_array :
              update_array[v] = 1 <=>
                  \/ v < SelfWeight(kernel) /\ v \in BirthSet(args.rule)
                  \/ /\ v >= SelfWeight(kernel)
                     /\ v - SelfWeight(kernel) \in SurviveSet(args.rule)

(***************************************************************************)
(* One step of an automaton on small grids.                                *)
(***************************************************************************)
Ones5 == [i \in 0 .. 4 |-> [j \in 0 .. 4 |-> 1]]
Weighted3 == Array2(<<<<1, 2, 0>>, <<0, 7, 1>>, <<3, 0, 1>>>>)
Weights == {NoArray, Weighted3, Ones5}
EdgeModes == {<<"wrap", 0>>, <<"fixed", 0>>, <<"fixed", 1>>}

StepArgs ==
    {[cls |-> "LifeLike", rule |-> Conway, edges |-> e[1], edge_fill |-> e[2],
      r |-> r, weights |-> w] : e \in EdgeModes, r \in 0 .. MaxR, w \in Weights}
    \cup {[cls |-> "ECA", n |-> [ty |-> "int", v |-> 110], edges |-> e[1],
           edge_fill |-> e[2]] : e \in EdgeModes}

\* the grids given to set_state
StepGrids == IF cls = "ECA" THEN Arrays1(MaxCols, 0 .. 1) ELSE Arrays2(2, MaxCols, 0 .. 1)

InitStep == Start(StepArgs)

\* an automaton is built, given a grid once, and stepped from there
NextStep ==
    \/ New
    \/ ret.op = "__init__" /\ \E v \in StepGrids : SetStateList(v)
    \/ Step

SpecStep == InitStep /\ [][NextStep]_vars

\* the weights a LifeLike automaton is asked for: those given, or ones over
\* the neighbourhood of radius r
AskedWeights(a) ==
    IF a.weights = NoArray THEN [i \in 0 .. 2 * a.r |-> [j \in 0 .. 2 * a.r |-> 1]]
    ELSE a.weights

\* the value at (i, j) of the grid a continued over its edges around a torus
Torus(a, i, j) == a[i % NRows(a)][j % NCols(a)]
Inside(a, i, j) == i \in DOMAIN a /\ j \in DOMAIN a[0]

\* the sum over the neighbours of cell (i, j) of a, each weighted by the
\* entry of w at its offset from the centre of w, the cell itself left out,
\* and a position outside the grid counted as out(i, j)
NeighbourSum(w, a, i, j, fixed, fill) ==
    LET c == Centre(w)
    IN  SumFn([d \in (Cells(w) \ {<<c, c>>}) |->
            w[d[1]][d[2]] *
                (IF fixed /\ ~Inside(a, i + d[1] - c, j + d[2] - c) THEN fill
                 ELSE Torus(a, i + d[1] - c, j + d[2] - c))])

\* C6: the centre entry of a LifeLike kernel is the sum of the other weights
\* plus one, whatever the centre weight given, and so for a binary grid the
\* convolved value of a cell is at least the self-weight exactly when the
\* cell is alive, and is the self-weight contribution plus the weighted sum
\* of its neighbours.
C6_SelfWeightSeparates ==
    cls = "LifeLike" =>
        LET w == AskedWeights(args)
            sw == OtherWeights(w) + 1
        IN  /\ SelfWeight(kernel) = sw
            /\ cell_array # None =>
                 LET a == heap[cell_array]
                 IN  \A c \in Cells(a) :
                        LET v == Sums(a)[c[1]][c[2]]
                        IN  /\ v >= sw <=> a[c[1]][c[2]] = 1
                            /\ v - sw * a[c[1]][c[2]]
                                 = NeighbourSum(w, a, c[1], c[2],
                                                edges = "fixed", edge_fill)

\* the weighted sum of cell (i, j) of the grid a under the engine's edge
\* policy: the kernel entry for the neighbour at offset d is the one at -d
\* from the kernel's centre
PolicySum(a, i, j) ==
    LET kh == (NRows(kernel) - 1) \div 2
        kw == (NCols(kernel) - 1) \div 2
    IN  SumFn([d \in (-kh .. kh) \X (-kw .. kw) |->
            kernel[kh - d[1]][kw - d[2]] *
                (IF Inside(a, i + d[1], j + d[2]) THEN a[i + d[1]][j + d[2]]
                 ELSE IF edges = "fixed" THEN edge_fill
                 ELSE Torus(a, i + d[1], j + d[2]))])

\* C10: in step(), a neighbour position outside the grid contributes
\* edge_fill to a cell's weighted sum when edges = "fixed", and the value of
\* the cell at the same position modulo the grid's height and width when
\* edges = "wrap".
C10_EdgePolicy ==
    (cls # "unbuilt" /\ cell_array # None) =>
        LET a == heap[cell_array]
        IN  \A c \in Cells(a) : Sums(a)[c[1]][c[2]] = PolicySum(a, c[1], c[2])

\* a grid produced by step() under fixed edges filled with 1, with a live
\* cell, whose corner cell gets another sum than it would around a torus
C10_Witness ==
    /\ ret.op = "step" /\ ret.err = ""
    /\ cls = "LifeLike" /\ edges = "fixed" /\ edge_fill = 1
    /\ LET a == heap[cell_array]
       IN  /\ \E c \in Cells(a) : a[c[1]][c[2]] = 1
           /\ Sums(a)[0][0] # SumFn([d \in Cells(kernel) |->
                 kernel[d[1]][d[2]]
                   * Torus(a, Centre(kernel) - d[1], (NCols(kernel) - 1) \div 2 - d[2])])

(***************************************************************************)
(* Elementary automata: every rule number, on short rows.                  *)
(***************************************************************************)
RuleNumbers ==
    {[ty |-> "int", v |-> n] : n \in -1 .. 256} \cup {[ty |-> "str", v |-> 110]}

ECAArgs ==
    {[cls |-> "ECA", n |-> n, edges |-> "wrap", edge_fill |-> 0] : n \in RuleNumbers}

ECARows == UNION {Arrays1(n, 0 .. 1) : n \in 1 .. MaxRow}

InitECA == Start(ECAArgs)

NextECA ==
    \/ New
    \/ \E v \in ECARows : SetStateList(v)
    \/ Step

SpecECA == InitECA /\ [][NextECA]_vars

\* bit number i of n, counted from the least significant
Bit(n, i) == (n \div Pow(2, i)) % 2

\* C7: one step of the elementary automaton of rule n with wrap edges sets
\* cell j of a row x over {0, 1} to bit number 4*x[j-1] + 2*x[j] + x[j+1] of
\* n, the indices taken modulo the length of the row.
C7_StepIsRuleN ==
    [][(ret'.op = "step" /\ cls = "ECA" /\ edges = "wrap" /\ cell_array # None)
        => /\ ret'.err = ""
           /\ LET x == heap[cell_array][0]
                  y == heap'[cell_array'][0]
                  len == Len1(x)
              IN  /\ DOMAIN y = DOMAIN x
                  /\ DOMAIN heap'[cell_array'] = {0}
                  /\ \A j \in DOMAIN x :
                        y[j] = Bit(args.n.v, 4 * x[(j - 1) % len] + 2 * x[j]
                                              + x[(j + 1) % len])]_vars

\* rule 110 has just stepped the row 0 0 1 to 0 1 1
C7_Witness ==
    /\ ret.op = "step" /\ ret.err = ""
    /\ cls = "ECA" /\ edges = "wrap" /\ args.n.v = 110
    /\ heap[cell_array] = [i \in {0} |-> [j \in 0 .. 2 |-> IF j = 0 THEN 0 ELSE 1]]

(***************************************************************************)
(* Non-totalistic automata: the table built from a rule function.          *)
(***************************************************************************)
\* the numbers of states tried: 9-cell neighbourhoods have base^9 patterns
Bases(nb) == IF Lower(nb) = "von neumann" THEN 1 .. MaxBase ELSE 1 .. 2

RuleFuncs(nb) ==
    {[kind |-> "func", name |-> "cell", k |-> k] : k \in 0 .. nb_sizes(Lower(nb)) - 1}
    \cup {[kind |-> "func", name |-> "mix", k |-> 0]}

NTArgs ==
    UNION {{[cls |-> "NonTotalistic", rule |-> f, base |-> b, nb |-> nb,
             edges |-> "wrap", edge_fill |-> 0] : f \in RuleFuncs(nb), b \in Bases(nb)}
           : nb \in NbNames \cup {"Moore", "hexagonal"}}

InitNT == Start(NTArgs)

SpecNT == InitNT /\ [][New]_vars

\* the neighbourhood patterns over 0..base-1, as a rule function receives them
Patterns(nb, base) ==
    IF nb = "moore" THEN Arrays2(3, 3, 0 .. base - 1)
    ELSE Arrays1(nb_sizes(nb), 0 .. base - 1)

\* a grid around a cell whose neighbourhood is p; the cells outside the
\* neighbourhood hold x
Around(nb, p, x) ==
    IF nb = "moore" THEN p
    ELSE IF nb = "von neumann"
    THEN Array2(<<<<x, p[0], x>>, <<p[1], p[2], p[3]>>, <<x, p[4], x>>>>)
    ELSE Array2(<<<<x, x, p[0], x, x>>,
                  <<x, x, p[1], x, x>>,
                  <<p[2], p[3], p[4], p[5], p[6]>>,
                  <<x, x, p[7], x, x>>,
                  <<x, x, p[8], x, x>>>>)

\* the weighted sum the convolution computes for the cell in the middle
Encoding(nb, p, x) ==
    LET g == Around(nb, p, x)
    IN  convolve2d(g, kernel, "fill", 0)[Centre(g)][Centre(g)]

\* C8: the update table built from a rule function f has
\* base^neighbourhood_size entries, its entry at the weighted sum of a
\* pattern p is f(p), and distinct patterns have distinct weighted sums.
C8_TableAgreesWithFunction ==
    (cls = "NonTotalistic" /\ args.rule.kind = "func") =>
        LET nb == Lower(args.nb)
            P == Patterns(nb, args.base)
        IN  /\ Len1(update_array) = Pow(args.base, nb_sizes(nb))
            /\ \A p \in P :
                  LET e == Encoding(nb, p, args.base - 1)
                  IN  e \in DOMAIN update_array
                      /\ update_array[e] = Call(args.rule, p, nb)
            /\ Cardinality({Encoding(nb, p, args.base - 1) : p \in P}) = Cardinality(P)

\* a table built for a rule reading one neighbour, over more than one state
C8_Witness ==
    /\ cls = "NonTotalistic" /\ ret.op = "__init__" /\ ret.err = ""
    /\ args.rule.name = "cell" /\ args.rule.k = 1 /\ args.base = 2
    /\ Lower(args.nb) = "extended"
    /\ \E v \in DOMAIN update_array : update_array[v] = 1

(***************************************************************************)
(* The caller's arrays and the engine's grid: the caller keeps the arrays  *)
(* it gives and gets, and writes into them.                                *)
(***************************************************************************)
NextAlias ==
    \/ \E v \in OwnArrays(cls) : NewArray(v)
    \/ \E r \in held : \E pos \in Positions(heap[r]) : \E x \in 0 .. 1 : Mutate(r, pos, x)
    \/ \E r \in held : Drop(r)
    \/ \E r \in held : SetState(r)
    \/ CopyState(TRUE)
    \/ Step
    \/ NGenerations("a", 2)
    \/ Pull("a", TRUE)

InitAlias ==
    /\ Init
    /\ args.edges = "wrap"

SpecAlias == InitAlias /\ [][NextAlias]_vars

\* C9: copy_state() right after set_state(g) returns a grid equal to g in
\* shape and values; the engine's grid is no array the caller holds, so a
\* write into g or into a returned or yielded grid leaves the engine's grid
\* as it was, and a step leaves every array the caller holds as it was.
C9_CopiesAreIndependent ==
    [][/\ cell_array' \notin held'
       /\ (ret.op = "set_state" /\ ret.val # None /\ ret'.op = "copy_state")
            => /\ ret'.err = ""
               /\ ret'.val # None => heap'[ret'.val] = heap[ret.val]
       /\ ret'.op = "mutate"
            => GridAt(heap', cell_array') = GridAt(heap, cell_array)
       /\ ret'.op \in {"step", "next"}
            => \A r \in held : heap'[r] = heap[r]]_vars

\* the caller holds g and a copy taken right after set_state(g), has since
\* written into g, and the engine has stepped
C9_Witness ==
    /\ ret.op = "step" /\ ret.err = ""
    /\ Cardinality(held) = 2
    /\ \E r \in held : \E q \in held :
          /\ heap[r] # heap[q]
          /\ CopyValue # heap[r] /\ CopyValue # heap[q]

(***************************************************************************)
(* Cell values and edge fills in and out of the automaton's state range.   *)
(***************************************************************************)
\* the number of states of the built automaton
StateBase == IF cls = "NonTotalistic" THEN args.base ELSE 2

\* the values given as edge_fill and as cells: 2 is no state of a 2-state
\* automaton
FillValues == {0, 1, 2}
CellValues == {0, 1, 2}

\* a 5-cell rule over two states that returns the cell itself
KeepCell == [kind |-> "func", name |-> "cell", k |-> 2]

RangeEdges == {<<"wrap", 0>>} \cup {<<"fixed", f>> : f \in FillValues}

RangeArgs ==
    {[cls |-> "ECA", n |-> [ty |-> "int", v |-> 110], edges |-> e[1],
      edge_fill |-> e[2]] : e \in RangeEdges}
    \cup {[cls |-> "LifeLike", rule |-> Conway, edges |-> e[1], edge_fill |-> e[2],
           r |-> 1, weights |-> NoArray] : e \in RangeEdges}
    \cup {[cls |-> "NonTotalistic", rule |-> KeepCell, base |-> 2, nb |-> "von neumann",
           edges |-> e[1], edge_fill |-> e[2]] : e \in RangeEdges}

RangeGrids ==
    IF cls = "ECA" THEN Arrays1(MaxRow, CellValues) ELSE Arrays2(2, 2, CellValues)

InitRange == Start(RangeArgs)

\* an automaton is built, given a grid once, stepped and looked at
NextRange ==
    \/ New
    \/ ret.op = "__init__" /\ \E v \in RangeGrids : SetStateList(v)
    \/ Step
    \/ CopyState(FALSE)

SpecRange == InitRange /\ [][NextRange]_vars

\* every cell of the grid a is a state of the automaton
InRange(a) == \A c \in Cells(a) : a[c[1]][c[2]] \in 0 .. StateBase - 1

\* C11: for an automaton the constructor accepted and a grid whose cells are
\* states of the automaton, every weighted sum step() computes is an index of
\* the update table, in 0 .. len(update_table)-1.
C11_SumsAreTableIndices ==
    (cls # "unbuilt" /\ cell_array # None /\ InRange(heap[cell_array])) =>
        LET s == Sums(heap[cell_array])
        IN  \A c \in Cells(s) : s[c[1]][c[2]] \in 0 .. Len1(update_array) - 1

\* C12: when the grid given to set_state has a cell that is no state of the
\* automaton, the next step() raises an error and produces no generation.
C12_OutOfRangeGridFailsStep ==
    [][(ret.op = "set_state" /\ ret'.op = "step" /\ ~InRange(heap[cell_array]))
         => ret'.err # ""]_vars

\* C20: a step() that raises (a weighted sum that is no index of the table,
\* or no grid) leaves the engine's grid as it was, so that copy_state()
\* returns afterwards what it would have returned before.
C20_FailedStepKeepsGrid ==
    [][(ret'.op = "step" /\ ret'.err # "")
         => /\ GridAt(heap', cell_array') = GridAt(heap, cell_array)
            /\ CopyValue' = CopyValue]_vars

\* a step on a grid has just failed on a sum outside the table
C20_Witness ==
    /\ ret.op = "step" /\ ret.err = "IndexError"
    /\ cell_array # None
    /\ \E c \in Cells(heap[cell_array]) : heap[cell_array][c[1]][c[2]] = 1

(***************************************************************************)
(* Two sequences made on one engine.                                       *)
(***************************************************************************)
InitTwo ==
    /\ Init
    /\ args.cls = "ECA" /\ args.edges = "wrap"

\* the engine is given a row, and the caller pulls from two sequences in
\* any order
NextTwo ==
    \/ ret.op = "__init__" /\ \E v \in InputArrays(cls) : SetStateList(v)
    \/ \E g \in GenIds : \E n \in 2 .. MaxN + 1 : NGenerations(g, n)
    \/ \E g \in GenIds : Pull(g, FALSE)

SpecTwo == InitTwo /\ [][NextTwo]_vars

\* the sequence h has been started and has snapshots left to yield
Running(h) == gens[h].st = "suspended" /\ gens[h].pulls < gens[h].n

\* C13: while one sequence of an engine is started and not exhausted, a pull
\* from another sequence of that engine is rejected: it yields no snapshot.
C13_SecondSequenceRejected ==
    \A g \in GenIds :
        (ret.op = "next" /\ ret.gen = g /\ \E h \in GenIds \ {g} : Running(h))
            => ret.err \notin {"", "StopIteration"}

(***************************************************************************)
(* What the operations of a built automaton change.                        *)
(***************************************************************************)
\* C14: no set_state, step, copy_state, n_generations or pull changes the
\* kernel, the update table, the boundary policy or the edge fill; set_state
\* makes the grid the array given (as one row of a 2-d grid, for an ECA), and
\* copy_state leaves the grid as it is.
C14_OnlyGridChanges ==
    [][cls # "unbuilt" =>
         /\ engine' = engine
         /\ ret'.op = "copy_state"
              => GridAt(heap', cell_array') = GridAt(heap, cell_array)
         /\ (ret'.op = "set_state" /\ ret'.val # None)
              => heap'[cell_array'] = IF cls = "ECA" THEN [i \in {0} |-> heap[ret'.val]]
                                      ELSE heap[ret'.val]
         /\ ret'.op \in {"n_generations", "new", "mutate", "drop"}
              => GridAt(heap', cell_array') = GridAt(heap, cell_array)]_vars

\* a sequence has stepped the engine and yielded a snapshot the caller keeps
C14_Witness ==
    /\ ret.op = "next" /\ ret.err = "" /\ ret.val # None
    /\ gens["a"].steps >= 1
    /\ kernel = Build(args).kernel /\ update_array = Build(args).update_array

(***************************************************************************)
(* NonTotalistic given something that is no function for its rule.         *)
(***************************************************************************)
\* a table precomputed for two states and the 5-cell neighbourhood
KeepCellTable == func_to_update_array(KeepCell, 2, "von neumann")

\* what is given in place of a function: None, lists too short or with a
\* value that is no state, and a precomputed table
GivenTables == {NoArray, Array1(<<0, 1>>), Array1(<<0, 1, 5>>), KeepCellTable}

TableArgs ==
    {[cls |-> "NonTotalistic", rule |-> [kind |-> "array", table |-> t], base |-> 2,
      nb |-> nb, edges |-> e, edge_fill |-> 0]
        : t \in GivenTables, nb \in NbNames \cup {"hexagonal"}, e \in {"wrap", "fixed"}}

InitRule == Start(NTArgs \cup TableArgs)

SpecRule == InitRule /\ [][New]_vars

\* t is an update table for base states and the neighbourhood nb
ValidTable(t, base, nb) ==
    /\ t # NoArray
    /\ Len1(t) = Pow(base, nb_sizes(nb))
    /\ \A i \in DOMAIN t : t[i] \in 0 .. base - 1

\* C15: the construction of a NonTotalistic automaton from a rule that is
\* neither a function nor an update table of base^neighbourhood_size states
\* raises an error, and no automaton is built.
C15_InvalidRuleRejected ==
    (ret.op = "__init__" /\ args.cls = "NonTotalistic" /\ args.rule.kind # "func"
     /\ ~ValidTable(args.rule.table, args.base, Lower(args.nb)))
        => ret.err # "" /\ cls = "unbuilt"

(***************************************************************************)
(* LifeLike given weights that are not a square matrix.                    *)
(***************************************************************************)
Wide23 == Array2(<<<<1, 1, 1>>, <<1, 1, 1>>>>)
Wide35 == Array2(<<<<1, 1, 1, 1, 1>>, <<1, 1, 0, 1, 1>>, <<1, 1, 1, 1, 1>>>>)
Tall31 == Array2(<<<<1>>, <<0>>, <<1>>>>)
Tall53 == Array2(<<<<1, 1, 1>>, <<1, 1, 1>>, <<1, 0, 1>>, <<1, 1, 1>>, <<1, 1, 1>>>>)
OblongWeights == {Wide23, Wide35, Tall31, Tall53}

ShapeArgs ==
    {[cls |-> "LifeLike", rule |-> Conway, edges |-> e[1], edge_fill |-> e[2],
      r |-> r, weights |-> w] : e \in EdgeModes, r \in 0 .. MaxR, w \in OblongWeights}

InitShape == Start(StepArgs \cup ShapeArgs)

SpecShape == InitShape /\ [][New]_vars

\* C16: the construction of a LifeLike automaton from a weight matrix that is
\* not square raises an error, and no automaton is built.
C16_OblongWeightsRejected ==
    (ret.op = "__init__" /\ args.cls = "LifeLike" /\ args.weights # NoArray
     /\ NRows(args.weights) # NCols(args.weights))
        => ret.err # "" /\ cls = "unbuilt"

(***************************************************************************)
(* The engine before its first set_state.                                  *)
(***************************************************************************)
\* C17: an engine that has no grid gets one from set_state only: step()
\* raises an error, a pull that would step raises it too, and the engine
\* still has no grid afterwards.
C17_NoGridBeforeSetState ==
    [][(cls # "unbuilt" /\ cell_array = None) =>
         /\ ret'.op # "set_state" => cell_array' = None
         /\ ret'.op = "step" => ret'.err # ""
         /\ (ret'.op = "next" /\ gens[ret'.gen].st # "done"
             /\ LoopTest(gens[ret'.gen].n, gens[ret'.gen].count)
             /\ ShouldStep(gens[ret'.gen].n, gens[ret'.gen].count)) => ret'.err # ""]_vars

\* step() has failed on an engine that was never given a grid, after a
\* sequence made on it had been pulled
C17_Witness ==
    /\ ret.op = "step" /\ ret.err = "ValueError"
    /\ cell_array = None /\ heap = << >>
    /\ gens["a"].st # "none"

(***************************************************************************)
(* Life-like rules on grids of dead cells.                                 *)
(***************************************************************************)
ZeroAlphabet == {"B", "S", "/", "0", "3"}
ZeroRuleStrings == UNION {[1 .. n -> ZeroAlphabet] : n \in 0 .. MaxRuleLen}

ZeroArgs ==
    {[cls |-> "LifeLike", rule |-> [kind |-> "str", chars |-> c],
      edges |-> "wrap", edge_fill |-> 0, r |-> 1, weights |-> NoArray]
        : c \in ZeroRuleStrings}

\* the grids of dead cells, of one or two rows
ZeroGrids == UNION {Arrays2(h, w, {0}) : h \in 1 .. 2, w \in 1 .. MaxCols}

InitZero == Start(ZeroArgs)

\* an automaton is built from a rule string, given a grid of dead cells, and
\* stepped any number of times
NextZero ==
    \/ New
    \/ ret.op = "__init__" /\ \E v \in ZeroGrids : SetStateList(v)
    \/ Step

SpecZero == InitZero /\ [][NextZero]_vars

AllZero(a) == \A c \in Cells(a) : a[c[1]][c[2]] = 0

\* C18: for a valid rule string without the birth count 0 and wrap edges, a
\* grid of dead cells stays a grid of dead cells through any number of
\* steps, and no step fails.
C18_DeadGridStaysDead ==
    (cls = "LifeLike" /\ edges = "wrap" /\ cell_array # None
     /\ 0 \notin BirthSet(args.rule))
        => AllZero(heap[cell_array]) /\ ret.err = ""

\* a rule with births and with survival on no neighbour has stepped the
\* widest grid of dead cells
C18_Witness ==
    /\ cls = "LifeLike" /\ ret.op = "step" /\ ret.err = ""
    /\ 0 \notin BirthSet(args.rule) /\ 3 \in BirthSet(args.rule)
    /\ 0 \in SurviveSet(args.rule)
    /\ NRows(heap[cell_array]) = 2 /\ NCols(heap[cell_array]) = MaxCols
    /\ AllZero(heap[cell_array])

(***************************************************************************)
(* Conway's Game of Life.                                                  *)
(***************************************************************************)
\* LifeLike("B3/S23", edges="wrap")
InitLife ==
    /\ Init
    /\ args.cls = "LifeLike"

\* the binary grids of up to as many rows as the kernel has
LifeGrids ==
    UNION {Arrays2(h, w, 0 .. 1) : h \in 1 .. NRows(kernel), w \in 1 .. MaxCols}

NextLife ==
    \/ ret.op = "__init__" /\ \E v \in LifeGrids : SetStateList(v)
    \/ Step

SpecLife == InitLife /\ [][NextLife]_vars

\* the number of live cells among the eight neighbours of (i, j) around the
\* torus
LiveNeighbours(a, i, j) ==
    Cardinality({d \in ((-1 .. 1) \X (-1 .. 1)) \ {<<0, 0>>} :
                    Torus(a, i + d[1], j + d[2]) = 1})

CentreOnly == Array2(<<<<0, 0, 0>>, <<0, 1, 0>>, <<0, 0, 0>>>>)

\* C19: one step of LifeLike("B3/S23") with wrap edges makes a cell alive
\* exactly when it was dead with 3 live neighbours or alive with 2 or 3, the
\* neighbours counted around the torus on the grid before the step; the 3x3
\* grid with only its centre alive becomes all dead.
C19_StepIsConway ==
    [][(ret'.op = "step" /\ cell_array # None) =>
         /\ ret'.err = ""
         /\ LET a == heap[cell_array]
                b == heap'[cell_array']
            IN  /\ DOMAIN b = DOMAIN a /\ DOMAIN b[0] = DOMAIN a[0]
                /\ \A c \in Cells(a) :
                      LET n == LiveNeighbours(a, c[1], c[2])
                      IN  /\ b[c[1]][c[2]] \in {0, 1}
                          /\ b[c[1]][c[2]] = 1 <=>
                                \/ a[c[1]][c[2]] = 0 /\ n = 3
                                \/ a[c[1]][c[2]] = 1 /\ n \in {2, 3}
                /\ a = CentreOnly => AllZero(b)]_vars

\* a step has left a 3x3 grid with a live and a dead cell
C19_Witness ==
    /\ ret.op = "step" /\ ret.err = ""
    /\ NRows(heap[cell_array]) = 3 /\ NCols(heap[cell_array]) = 3
    /\ \E c \in Cells(heap[cell_array]) : heap[cell_array][c[1]][c[2]] = 1
    /\ \E c \in Cells(heap[cell_array]) : heap[cell_array][c[1]][c[2]] = 0

(***************************************************************************)
(* Binary grids under the steps of LifeLike and ECA automata, custom       *)
(* weights of either sign included.                                        *)
(***************************************************************************)
\* weights that are all negative, and weights with one negative entry
NegativeWeights == Array2(<<<<-1, -1, -1>>, <<-1, 0, -1>>, <<-1, -1, -1>>>>)
OneNegativeWeight == Array2(<<<<1, 1, 1>>, <<1, 0, 1>>, <<1, 1, -1>>>>)
SignedWeights == {NegativeWeights, OneNegativeWeight}

SignedArgs ==
    {[cls |-> "LifeLike", rule |-> Conway, edges |-> e[1], edge_fill |-> e[2],
      r |-> 1, weights |-> w] : e \in EdgeModes, w \in SignedWeights}

InitClosed == Start(StepArgs \cup SignedArgs)

SpecClosed == InitClosed /\ [][NextStep]_vars

\* C21: for a LifeLike or ECA automaton with wrap edges, or fixed edges
\* filled with 0 or 1, a step on a grid of cells in {0, 1} raises nothing,
\* every weighted sum it looks up is an index of the update table, and the
\* grid it leaves has the same shape and cells in {0, 1} again.
C21_BinaryGridsStayBinary ==
    [][(ret'.op = "step" /\ cls \in {"LifeLike", "ECA"} /\ cell_array # None
        /\ (edges = "wrap" \/ edge_fill \in {0, 1})) =>
         LET a == heap[cell_array]
             b == heap'[cell_array']
             s == Sums(a)
         IN  /\ \A c \in Cells(s) : s[c[1]][c[2]] \in 0 .. Len1(update_array) - 1
             /\ ret'.err = ""
             /\ DOMAIN b = DOMAIN a /\ DOMAIN b[0] = DOMAIN a[0]
             /\ \A c \in Cells(b) : b[c[1]][c[2]] \in {0, 1}]_vars

====
